---- MODULE Spec2Model ----
(***************************************************************************)
(* Model of the CSV pipeline scripts of movie-engine:                      *)
(*   scripts/dedup_ratings.py             dedup_ratings, to_int_safe, main *)
(*   scripts/filter_low_activity_users.py count_users, filter_users        *)
(* Field values are strings, modelled as sequences of one-character        *)
(* strings, so that to_int_safe is a real parser and not the identity.     *)
(* A row (a csv.DictReader dict) is a function from column names to field  *)
(* values.  The retention table `best` (a Python dict, which iterates in   *)
(* first-insertion order) is a sequence of entries [key, ts, row].         *)
(***************************************************************************)
EXTENDS Integers, Sequences, FiniteSets, TLC

VARIABLES
    infile,      \* the input CSV: [exists, hasHeader, fieldnames, rows]
    entry,       \* "main": through the CLI entry point; "direct": dedup_ratings called
    argv,        \* parsed CLI arguments (parse_args defaults)
    keep_order,  \* the --keep-order flag / keep_order parameter
    cols,        \* parameters user_col, item_col, ts_col, rating_col of dedup_ratings
    pc,          \* position in the running function
    best,        \* dedup_ratings: the retention table
    total,       \* rows counted so far
    pos,         \* rows the csv reader has yielded so far
    dirCreated,  \* os.makedirs(dirname(outpath)) has run
    header,      \* dedup_ratings: the local `header`
    items,       \* dedup_ratings: the local `items`
    iterCount,   \* how many times best.items() has been listed for output
    outfile,     \* the output CSV: [opened, headerWritten, fieldnames, rows]
    ret,         \* the function's return value: [set, kept, total]
    err,         \* the exception raised ("" when none)
    exitCode,    \* main's return value (-1 while running)
    run,         \* 1: first run; 2: the run on the first run's output
    threshold,   \* filter_users: the threshold parameter
    counts,      \* filter_users: the Counter of count_users
    keep_users,  \* filter_users: the set of users to keep
    kept,        \* filter_users: rows written so far
    outpath,     \* the output path (--output / outpath)
    fs,          \* the directories that exist
    s3           \* s3_upload_check: the state of main and of what it calls

vars == <<infile, entry, argv, keep_order, cols, pc, best, total, pos, dirCreated,
          header, items, iterCount, outfile, ret, err, exitCode, run,
          threshold, counts, keep_users, kept, outpath, fs, s3>>

\* the state of the CSV scripts
csvVars == <<infile, entry, argv, keep_order, cols, pc, best, total, pos, dirCreated,
             header, items, iterCount, outfile, ret, err, exitCode, run,
             threshold, counts, keep_users, kept, outpath, fs>>

----------------------------------------------------------------------------
(* Bounds and input universes *)

MaxRows == 3
MaxBadRows == 1
MaxPathRows == 2

Users == {<<"1">>, <<"2">>}
Items == {<<"1", "0">>}

\* The <<rating, timestamp>> pairs a row can carry.  The timestamps parse as an
\* integer ("4", "0"), only as a decimal ("-1.5"), or not at all ("NA"); "0" and
\* "NA" are different values of equal recency; the order of the ratings and the
\* order of the timestamps disagree.
Payloads == {<<<<"5">>, <<"4">>>>,
             <<<<"3">>, <<"0">>>>,
             <<<<"5">>, <<"N", "A">>>>,
             <<<<"3">>, <<"-", "1", ".", "5">>>>}

FullHeader == <<"userId", "movieId", "rating", "timestamp">>

Range(s) == {s[i] : i \in 1..Len(s)}

SeqsUpTo(S, n) == UNION {[1..k -> S] : k \in 0..n}

\* The headers an input file can carry: all four columns, or one of them absent.
Headers == {FullHeader} \cup
           {SelectSeq(FullHeader, LAMBDA c : c # d) : d \in Range(FullHeader)}

FullRows == {[userId |-> u, movieId |-> i, rating |-> p[1], timestamp |-> p[2]] :
                u \in Users, i \in Items, p \in Payloads}

\* The rows csv.DictReader yields under header h: one value per header column.
RowsOver(h) == {[c \in Range(h) |-> r[c]] : r \in FullRows}

\* the filter reads only the user column: more users, fewer payloads
FilterUsers == {<<"1">>, <<"2">>, <<"3">>}
FilterPayloads == {<<<<"5">>, <<"4">>>>, <<<<"3">>, <<"4">>>>}
FilterHeaders == {FullHeader, SelectSeq(FullHeader, LAMBDA c : c # "userId")}
FilterFullRows == {[userId |-> u, movieId |-> i, rating |-> p[1], timestamp |-> p[2]] :
                      u \in FilterUsers, i \in Items, p \in FilterPayloads}
FilterRowsOver(h) == {[c \in Range(h) |-> r[c]] : r \in FilterFullRows}

\* the input files: missing, empty (no header), or a header and data rows
InputFiles ==
    {[exists |-> FALSE, hasHeader |-> FALSE, fieldnames |-> <<>>, rows |-> <<>>],
     [exists |-> TRUE, hasHeader |-> FALSE, fieldnames |-> <<>>, rows |-> <<>>]}
    \cup
    UNION {{[exists |-> TRUE, hasHeader |-> TRUE, fieldnames |-> h, rows |-> rs] :
               rs \in SeqsUpTo(RowsOver(h), IF h = FullHeader THEN MaxRows ELSE MaxBadRows)} :
           h \in Headers}

FilterInputFiles ==
    {[exists |-> FALSE, hasHeader |-> FALSE, fieldnames |-> <<>>, rows |-> <<>>],
     [exists |-> TRUE, hasHeader |-> FALSE, fieldnames |-> <<>>, rows |-> <<>>]}
    \cup
    UNION {{[exists |-> TRUE, hasHeader |-> TRUE, fieldnames |-> h, rows |-> rs] :
               rs \in SeqsUpTo(FilterRowsOver(h), IF h = FullHeader THEN MaxRows ELSE MaxBadRows)} :
           h \in FilterHeaders}

\* Output paths: a file in a directory, in a nested directory, and a bare file
\* name with no directory component.
PathInDir == <<"o", "/", "f">>
PathNested == <<"a", "/", "b", "/", "f">>
PathBare == <<"f">>
OutPaths == {PathInDir, PathNested, PathBare}

\* input files with all four columns, for the runs that vary the output path
PathInputFiles ==
    {[exists |-> TRUE, hasHeader |-> TRUE, fieldnames |-> FullHeader, rows |-> rs] :
        rs \in SeqsUpTo(FullRows, MaxPathRows)}

\* the --threshold values tried: 0 is the one main rejects
Thresholds == 0..MaxRows

\* parse_args: the column-name defaults
DefaultArgs == [user_col |-> "userId", item_col |-> "movieId",
                timestamp_col |-> "timestamp", rating_col |-> "rating"]

\* s3_upload_check not running
S3Idle == [pc |-> "idle"]

NoCols == [user |-> "", item |-> "", ts |-> "", rating |-> ""]
NoRet == [set |-> FALSE, kept |-> 0, total |-> 0]
ClosedOut == [opened |-> FALSE, headerWritten |-> FALSE, fieldnames |-> <<>>, rows |-> <<>>]

----------------------------------------------------------------------------
(* to_int_safe: int(value), else int(float(value)), else 0.                *)
(* The strings covered: an optional sign, decimal digits, at most one      *)
(* decimal point.  Anything else fails both parses.                        *)

Digits == {"0", "1", "2", "3", "4", "5", "6", "7", "8", "9"}

DigitValue(c) == CASE c = "0" -> 0 [] c = "1" -> 1 [] c = "2" -> 2 [] c = "3" -> 3
                   [] c = "4" -> 4 [] c = "5" -> 5 [] c = "6" -> 6 [] c = "7" -> 7
                   [] c = "8" -> 8 [] c = "9" -> 9

RECURSIVE DigitsValue(_)
DigitsValue(s) == IF s = <<>> THEN 0
                  ELSE 10 * DigitsValue(SubSeq(s, 1, Len(s) - 1)) + DigitValue(s[Len(s)])

HasSign(s) == Len(s) > 0 /\ s[1] \in {"+", "-"}
Unsigned(s) == IF HasSign(s) THEN Tail(s) ELSE s
SignOf(s) == IF HasSign(s) /\ s[1] = "-" THEN -1 ELSE 1

\* int(value) succeeds
IntParses(s) == LET b == Unsigned(s) IN Len(b) > 0 /\ \A i \in 1..Len(b) : b[i] \in Digits
IntValue(s) == SignOf(s) * DigitsValue(Unsigned(s))

\* float(value) succeeds
FloatParses(s) ==
    LET b == Unsigned(s)
        dots == {i \in 1..Len(b) : b[i] = "."}
    IN /\ \A i \in 1..Len(b) : b[i] \in Digits \cup {"."}
       /\ Cardinality(dots) <= 1
       /\ \E i \in 1..Len(b) : b[i] \in Digits

\* int(float(value)): truncation toward zero
FloatTrunc(s) ==
    LET b == Unsigned(s)
        dots == {i \in 1..Len(b) : b[i] = "."}
        whole == IF dots = {} THEN b ELSE SubSeq(b, 1, (CHOOSE i \in dots : TRUE) - 1)
    IN SignOf(s) * DigitsValue(whole)

\* to_int_safe with -1 as the fallback
to_int_safe_minus_one(value) ==
    IF IntParses(value) THEN IntValue(value)
    ELSE IF FloatParses(value) THEN FloatTrunc(value)
    ELSE -1

to_int_safe(value) ==
    IF IntParses(value) THEN IntValue(value)
    ELSE IF FloatParses(value) THEN FloatTrunc(value)
    ELSE 0

----------------------------------------------------------------------------
(* The retention table *)

\* row.get(col, "")
Get(row, col) == IF col \in DOMAIN row THEN row[col] ELSE <<>>

KeyOf(row, c) == <<Get(row, c.user), Get(row, c.item)>>

HasKey(table, key) == \E i \in 1..Len(table) : table[i].key = key
IndexOf(table, key) == CHOOSE i \in 1..Len(table) : table[i].key = key

\* Insert with a strict comparison: the first of two tied rows stays
InsertStrict(table, key, ts, row) ==
    IF ~HasKey(table, key)
    THEN Append(table, [key |-> key, ts |-> ts, row |-> row])
    ELSE LET i == IndexOf(table, key) IN
         IF ts > table[i].ts
         THEN [table EXCEPT ![i] = [key |-> key, ts |-> ts, row |-> row]]
         ELSE table

\* Insert without the comparison: the last row of a key stays
InsertLastWins(table, key, ts, row) ==
    IF ~HasKey(table, key)
    THEN Append(table, [key |-> key, ts |-> ts, row |-> row])
    ELSE LET i == IndexOf(table, key) IN
         [table EXCEPT ![i] = [key |-> key, ts |-> ts, row |-> row]]

\* best.get(key) / best[key] = (ts, row): a new key is appended to the iteration
\* order, a stored key keeps its place and is replaced iff ts >= existing_ts.
Insert(table, key, ts, row) ==
    IF ~HasKey(table, key)
    THEN Append(table, [key |-> key, ts |-> ts, row |-> row])
    ELSE LET i == IndexOf(table, key) IN
         IF ts >= table[i].ts
         THEN [table EXCEPT ![i] = [key |-> key, ts |-> ts, row |-> row]]
         ELSE table

\* the body of the scan loop for one row
Observe(table, row, c) == Insert(table, KeyOf(row, c), to_int_safe(Get(row, c.ts)), row)

\* a sort that puts an entry before the entries of equal recency
RECURSIVE UnstableInsert(_, _)
UnstableInsert(sorted, e) ==
    IF sorted = <<>> THEN <<e>>
    ELSE IF sorted[Len(sorted)].ts < e.ts THEN Append(sorted, e)
    ELSE Append(UnstableInsert(SubSeq(sorted, 1, Len(sorted) - 1), e), sorted[Len(sorted)])

\* items.sort(key=lambda it: it[1][0]): a stable ascending sort
RECURSIVE SortedInsert(_, _)
SortedInsert(sorted, e) ==
    IF sorted = <<>> THEN <<e>>
    ELSE IF sorted[Len(sorted)].ts <= e.ts THEN Append(sorted, e)
    ELSE Append(SortedInsert(SubSeq(sorted, 1, Len(sorted) - 1), e), sorted[Len(sorted)])

\* a stable sort, newest first
RECURSIVE DescendingInsert(_, _)
DescendingInsert(sorted, e) ==
    IF sorted = <<>> THEN <<e>>
    ELSE IF sorted[Len(sorted)].ts >= e.ts THEN Append(sorted, e)
    ELSE Append(DescendingInsert(SubSeq(sorted, 1, Len(sorted) - 1), e), sorted[Len(sorted)])

RECURSIVE SortByTsDescending(_)
SortByTsDescending(list) ==
    IF list = <<>> THEN <<>>
    ELSE DescendingInsert(SortByTsDescending(SubSeq(list, 1, Len(list) - 1)), list[Len(list)])

RECURSIVE SortByTs(_)
SortByTs(list) ==
    IF list = <<>> THEN <<>>
    ELSE SortedInsert(SortByTs(SubSeq(list, 1, Len(list) - 1)), list[Len(list)])

----------------------------------------------------------------------------
(* Paths and directories *)

Slashes(p) == {i \in 1..Len(p) : p[i] = "/"}
LastSlash(p) == CHOOSE i \in Slashes(p) : \A j \in Slashes(p) : j <= i

\* str.rstrip("/")
RECURSIVE StripSlashes(_)
StripSlashes(p) == IF p # <<>> /\ p[Len(p)] = "/"
                   THEN StripSlashes(SubSeq(p, 1, Len(p) - 1))
                   ELSE p

\* os.path.dirname: everything up to the last slash, trailing slashes removed
\* unless nothing else is left; "" for a path without a slash
Dirname(p) ==
    IF Slashes(p) = {} THEN <<>>
    ELSE LET head == SubSeq(p, 1, LastSlash(p)) IN
         IF StripSlashes(head) = <<>> THEN head ELSE StripSlashes(head)

\* the directory d and the directories above it
RECURSIVE Ancestors(_)
Ancestors(d) == IF d = <<>> \/ Dirname(d) = d THEN {} ELSE {d} \cup Ancestors(Dirname(d))

\* os.makedirs(d, exist_ok=True) raises: mkdir("") finds no such directory, and
\* exist_ok only forgives a directory that is already there
MakedirsFails(d) == d = <<>>

\* the directories after os.makedirs(d, exist_ok=True) has returned
Makedirs(dirs, d) == dirs \cup Ancestors(d)

----------------------------------------------------------------------------
(* dedup_ratings, and main around it *)

InitCommon ==
    /\ argv = DefaultArgs
    /\ keep_order \in BOOLEAN
    /\ cols = NoCols
    /\ pc = "start"
    /\ best = <<>>
    /\ total = 0
    /\ pos = 0
    /\ dirCreated = FALSE
    /\ header = <<>>
    /\ items = <<>>
    /\ iterCount = 0
    /\ outfile = ClosedOut
    /\ ret = NoRet
    /\ err = ""
    /\ exitCode = -1
    /\ run = 1
    /\ counts = [u \in {} |-> 0]
    /\ keep_users = {}
    /\ kept = 0

Init ==
    /\ InitCommon
    /\ s3 = S3Idle
    /\ infile \in InputFiles
    /\ outpath = PathInDir
    /\ fs = {}
    /\ entry \in {"main", "direct"}
    /\ threshold = 0

\* main: dedup_ratings(args.input, args.output, args.user_col, args.item_col,
\*                     args.rating_col, args.timestamp_col, args.keep_order)
MainCall ==
    /\ pc = "start" /\ entry = "main"
    /\ cols' = [user |-> argv.user_col, item |-> argv.item_col,
                ts |-> argv.rating_col, rating |-> argv.timestamp_col]
    /\ pc' = "preflight"
    /\ UNCHANGED <<infile, outpath, fs, s3, entry, argv, keep_order, best, total, pos, dirCreated,
                   header, items, iterCount, outfile, ret, err, exitCode, run,
                   threshold, counts, keep_users, kept>>

\* dedup_ratings called with each column parameter naming its own column
DirectCall ==
    /\ pc = "start" /\ entry = "direct"
    /\ cols' = [user |-> "userId", item |-> "movieId",
                ts |-> "timestamp", rating |-> "rating"]
    /\ pc' = "preflight"
    /\ UNCHANGED <<infile, outpath, fs, s3, entry, argv, keep_order, best, total, pos, dirCreated,
                   header, items, iterCount, outfile, ret, err, exitCode, run,
                   threshold, counts, keep_users, kept>>

RequiredCols(c) == {c.user, c.item, c.ts, c.rating}

\* Preflight without the rating column in the presence check
PreflightNoRatingCheck ==
    /\ pc = "preflight"
    /\ best' = <<>>
    /\ total' = 0
    /\ pos' = 0
    /\ IF ~infile.exists
       THEN err' = "FileNotFoundError" /\ pc' = "failed"
       ELSE IF ~infile.hasHeader
       THEN err' = "ValueError" /\ pc' = "failed"
       ELSE IF ~({cols.user, cols.item, cols.ts} \subseteq Range(infile.fieldnames))
       THEN err' = "ValueError" /\ pc' = "failed"
       ELSE err' = "" /\ pc' = "scan"
    /\ UNCHANGED <<infile, outpath, fs, s3, entry, argv, keep_order, cols, dirCreated,
                   header, items, iterCount, outfile, ret, exitCode, run,
                   threshold, counts, keep_users, kept>>

\* lines 72-86: the existence check, best = {}, total = 0, the header checks
Preflight ==
    /\ pc = "preflight"
    /\ best' = <<>>
    /\ total' = 0
    /\ pos' = 0
    /\ IF ~infile.exists
       THEN err' = "FileNotFoundError" /\ pc' = "failed"
       ELSE IF ~infile.hasHeader
       THEN err' = "ValueError" /\ pc' = "failed"
       ELSE IF ~(RequiredCols(cols) \subseteq Range(infile.fieldnames))
       THEN err' = "ValueError" /\ pc' = "failed"
       ELSE err' = "" /\ pc' = "scan"
    /\ UNCHANGED <<infile, outpath, fs, s3, entry, argv, keep_order, cols, dirCreated,
                   header, items, iterCount, outfile, ret, exitCode, run,
                   threshold, counts, keep_users, kept>>

\* ScanRow counting a row only when its key is new
ScanRowCountsNewKeys ==
    /\ pc = "scan"
    /\ pos < Len(infile.rows)
    /\ pos' = pos + 1
    /\ total' = IF HasKey(best, KeyOf(infile.rows[pos + 1], cols)) THEN total ELSE total + 1
    /\ best' = Observe(best, infile.rows[pos + 1], cols)
    /\ UNCHANGED <<infile, outpath, fs, s3, entry, argv, keep_order, cols, pc, dirCreated,
                   header, items, iterCount, outfile, ret, err, exitCode, run,
                   threshold, counts, keep_users, kept>>

\* ScanRow writing each row of a new key as soon as it is read
ScanRowStreaming ==
    /\ pc = "scan"
    /\ pos < Len(infile.rows)
    /\ pos' = pos + 1
    /\ total' = total + 1
    /\ best' = Observe(best, infile.rows[pos + 1], cols)
    /\ outfile' = IF HasKey(best, KeyOf(infile.rows[pos + 1], cols)) THEN outfile
                  ELSE [opened |-> TRUE, headerWritten |-> TRUE,
                        fieldnames |-> infile.fieldnames,
                        rows |-> Append(outfile.rows, infile.rows[pos + 1])]
    /\ UNCHANGED <<infile, outpath, fs, s3, entry, argv, keep_order, cols, pc, dirCreated,
                   header, items, iterCount, ret, err, exitCode, run,
                   threshold, counts, keep_users, kept>>

\* lines 88-103: one iteration of `for row in reader`
ScanRow ==
    /\ pc = "scan"
    /\ pos < Len(infile.rows)
    /\ pos' = pos + 1
    /\ total' = total + 1
    /\ best' = Observe(best, infile.rows[pos + 1], cols)
    /\ UNCHANGED <<infile, outpath, fs, s3, entry, argv, keep_order, cols, pc, dirCreated,
                   header, items, iterCount, outfile, ret, err, exitCode, run,
                   threshold, counts, keep_users, kept>>

\* lines 105-123: the reader is exhausted; makedirs, the header, the items list.
\* When makedirs raises, the function ends there.
Prepare ==
    /\ pc = "scan"
    /\ pos = Len(infile.rows)
    /\ IF MakedirsFails(Dirname(outpath))
       THEN /\ err' = "FileNotFoundError"
            /\ pc' = "failed"
            /\ UNCHANGED <<fs, dirCreated, header, items, iterCount>>
       ELSE /\ fs' = Makedirs(fs, Dirname(outpath))
            /\ dirCreated' = TRUE
            /\ header' = IF best # <<>> THEN infile.fieldnames
                         ELSE IF infile.hasHeader THEN infile.fieldnames ELSE <<>>
            /\ items' = IF keep_order THEN SortByTs(best) ELSE best
            /\ iterCount' = iterCount + 1
            /\ pc' = "open"
            /\ err' = err
    /\ UNCHANGED <<infile, outpath, s3, entry, argv, keep_order, cols, best, total, pos,
                   outfile, ret, exitCode, run,
                   threshold, counts, keep_users, kept>>

\* lines 125-127: open(outpath, "w"), writer.writeheader()
OpenOut ==
    /\ pc = "open"
    /\ outfile' = [opened |-> TRUE, headerWritten |-> TRUE,
                   fieldnames |-> header, rows |-> <<>>]
    /\ pc' = "write"
    /\ UNCHANGED <<infile, outpath, fs, s3, entry, argv, keep_order, cols, best, total, pos, dirCreated,
                   header, items, iterCount, ret, err, exitCode, run,
                   threshold, counts, keep_users, kept>>

\* lines 128-129: one iteration of `for _, (ts, row) in items`
WriteRow ==
    /\ pc = "write"
    /\ Len(outfile.rows) < Len(items)
    /\ outfile' = [outfile EXCEPT !.rows = Append(@, items[Len(outfile.rows) + 1].row)]
    /\ UNCHANGED <<infile, outpath, fs, s3, entry, argv, keep_order, cols, pc, best, total, pos, dirCreated,
                   header, items, iterCount, ret, err, exitCode, run,
                   threshold, counts, keep_users, kept>>

\* lines 131-132: kept = len(best); return kept, total
Return ==
    /\ pc = "write"
    /\ Len(outfile.rows) = Len(items)
    /\ ret' = [set |-> TRUE, kept |-> Len(best), total |-> total]
    /\ pc' = "done"
    /\ UNCHANGED <<infile, outpath, fs, s3, entry, argv, keep_order, cols, best, total, pos, dirCreated,
                   header, items, iterCount, outfile, err, exitCode, run,
                   threshold, counts, keep_users, kept>>

\* main, lines 140-144: 0 after the call returned, 2 after an exception
MainExit ==
    /\ entry = "main"
    /\ pc \in {"done", "failed"}
    /\ exitCode' = IF pc = "done" THEN 0 ELSE 2
    /\ pc' = "exited"
    /\ UNCHANGED <<infile, outpath, fs, s3, entry, argv, keep_order, cols, best, total, pos, dirCreated,
                   header, items, iterCount, outfile, ret, err, run,
                   threshold, counts, keep_users, kept>>

Succeeded == \/ entry = "direct" /\ pc = "done"
             \/ entry = "main" /\ pc = "exited" /\ exitCode = 0

\* The same command is run again with the first run's output file as its input.
Rerun ==
    /\ run = 1
    /\ Succeeded
    /\ infile' = [exists |-> TRUE, hasHeader |-> outfile.headerWritten,
                  fieldnames |-> outfile.fieldnames, rows |-> outfile.rows]
    /\ run' = 2
    /\ pc' = "start"
    /\ cols' = NoCols
    /\ best' = <<>>
    /\ total' = 0
    /\ pos' = 0
    /\ dirCreated' = FALSE
    /\ header' = <<>>
    /\ items' = <<>>
    /\ iterCount' = 0
    /\ outfile' = ClosedOut
    /\ ret' = NoRet
    /\ err' = ""
    /\ exitCode' = -1
    /\ UNCHANGED <<outpath, fs, s3, entry, argv, keep_order, threshold, counts, keep_users, kept>>

Next ==
    \/ MainCall
    \/ DirectCall
    \/ Preflight
    \/ ScanRow
    \/ Prepare
    \/ OpenOut
    \/ WriteRow
    \/ Return
    \/ MainExit
    \/ Rerun

Spec == Init /\ [][Next]_vars

\* dedup_ratings over every kind of output path, the parent directory there or not
InitPaths ==
    /\ InitCommon
    /\ s3 = S3Idle
    /\ infile \in PathInputFiles
    /\ outpath \in OutPaths
    /\ fs \in {{}, {Dirname(PathInDir)}, Ancestors(Dirname(PathNested))}
    /\ entry \in {"main", "direct"}
    /\ threshold = 0

SpecPaths == InitPaths /\ [][Next]_vars

----------------------------------------------------------------------------
(* filter_low_activity_users: main, count_users, filter_users *)

InitFilter ==
    /\ InitCommon
    /\ s3 = S3Idle
    /\ outpath = PathInDir
    /\ fs = {}
    /\ infile \in FilterInputFiles
    /\ entry = "main"
    /\ threshold \in Thresholds

\* main, lines 91-96: a threshold below 1 is rejected, else filter_users is called
FilterMain ==
    /\ pc = "start"
    /\ cols' = [user |-> argv.user_col, item |-> "", ts |-> "", rating |-> ""]
    /\ IF threshold < 1
       THEN exitCode' = 2 /\ pc' = "exited"
       ELSE exitCode' = exitCode /\ pc' = "count"
    /\ UNCHANGED <<infile, outpath, fs, s3, entry, argv, keep_order, best, total, pos, dirCreated,
                   header, items, iterCount, outfile, ret, err, run,
                   threshold, counts, keep_users, kept>>

\* count_users, lines 44-50: the Counter, open(inpath), the header checks
CountOpen ==
    /\ pc = "count"
    /\ counts' = [u \in {} |-> 0]
    /\ pos' = 0
    /\ IF ~infile.exists
       THEN err' = "FileNotFoundError" /\ pc' = "failed"
       ELSE IF ~infile.hasHeader
       THEN err' = "ValueError" /\ pc' = "failed"
       ELSE IF cols.user \notin Range(infile.fieldnames)
       THEN err' = "ValueError" /\ pc' = "failed"
       ELSE err' = "" /\ pc' = "counting"
    /\ UNCHANGED <<infile, outpath, fs, s3, entry, argv, keep_order, cols, best, total, dirCreated,
                   header, items, iterCount, outfile, ret, exitCode, run,
                   threshold, keep_users, kept>>

\* counts[uid] += 1 on a Counter: a missing user counts from 0
Increment(c, uid) ==
    [u \in DOMAIN c \cup {uid} |-> IF u = uid
                                   THEN (IF uid \in DOMAIN c THEN c[uid] ELSE 0) + 1
                                   ELSE c[u]]

\* count_users, lines 51-53: one iteration of the counting loop
CountRow ==
    /\ pc = "counting"
    /\ pos < Len(infile.rows)
    /\ pos' = pos + 1
    /\ counts' = Increment(counts, Get(infile.rows[pos + 1], cols.user))
    /\ UNCHANGED <<infile, outpath, fs, s3, entry, argv, keep_order, cols, pc, best, total, dirCreated,
                   header, items, iterCount, outfile, ret, err, exitCode, run,
                   threshold, keep_users, kept>>

\* the users whose count does not reach the threshold are kept as well
KeepUsersAbove(c, t) == {u \in DOMAIN c : c[u] > t}

\* line 59: keep_users = {u for u, c in counts.items() if c >= threshold}
KeepUsers(c, t) == {u \in DOMAIN c : c[u] >= t}

\* lines 54, 59-64: count_users returns; keep_users, makedirs, kept = 0, total = 0
SelectUsers ==
    /\ pc = "counting"
    /\ pos = Len(infile.rows)
    /\ keep_users' = KeepUsers(counts, threshold)
    /\ IF MakedirsFails(Dirname(outpath))
       THEN /\ err' = "FileNotFoundError"
            /\ pc' = "failed"
            /\ UNCHANGED <<fs, dirCreated, kept, total>>
       ELSE /\ fs' = Makedirs(fs, Dirname(outpath))
            /\ dirCreated' = TRUE
            /\ kept' = 0
            /\ total' = 0
            /\ pc' = "open"
            /\ err' = err
    /\ UNCHANGED <<infile, outpath, s3, entry, argv, keep_order, cols, best, pos,
                   header, items, iterCount, outfile, ret, exitCode, run,
                   threshold, counts>>

\* lines 65-69: both files opened, fieldnames = reader.fieldnames or [], writeheader()
FilterOpen ==
    /\ pc = "open"
    /\ pos' = 0
    /\ outfile' = [opened |-> TRUE, headerWritten |-> TRUE,
                   fieldnames |-> IF infile.hasHeader THEN infile.fieldnames ELSE <<>>,
                   rows |-> <<>>]
    /\ pc' = "filter"
    /\ UNCHANGED <<infile, outpath, fs, s3, entry, argv, keep_order, cols, best, total, dirCreated,
                   header, items, iterCount, ret, err, exitCode, run,
                   threshold, counts, keep_users, kept>>

\* lines 71-84: one iteration of the streaming loop; both branches of keep_order
\* run the same loop body
FilterRow ==
    /\ pc = "filter"
    /\ pos < Len(infile.rows)
    /\ pos' = pos + 1
    /\ total' = total + 1
    /\ \/ /\ keep_order
          /\ IF Get(infile.rows[pos + 1], cols.user) \in keep_users
             THEN /\ outfile' = [outfile EXCEPT !.rows = Append(@, infile.rows[pos + 1])]
                  /\ kept' = kept + 1
             ELSE UNCHANGED <<outfile, kept>>
       \/ /\ ~keep_order
          /\ IF Get(infile.rows[pos + 1], cols.user) \in keep_users
             THEN /\ outfile' = [outfile EXCEPT !.rows = Append(@, infile.rows[pos + 1])]
                  /\ kept' = kept + 1
             ELSE UNCHANGED <<outfile, kept>>
    /\ UNCHANGED <<infile, outpath, fs, s3, entry, argv, keep_order, cols, pc, best, dirCreated,
                   header, items, iterCount, ret, err, exitCode, run,
                   threshold, counts, keep_users>>

\* lines 86-87: the summary line, return kept
FilterReturn ==
    /\ pc = "filter"
    /\ pos = Len(infile.rows)
    /\ ret' = [set |-> TRUE, kept |-> kept, total |-> total]
    /\ pc' = "done"
    /\ UNCHANGED <<infile, outpath, fs, s3, entry, argv, keep_order, cols, best, total, pos, dirCreated,
                   header, items, iterCount, outfile, err, exitCode, run,
                   threshold, counts, keep_users, kept>>

\* main, lines 97-100
FilterExit ==
    /\ pc \in {"done", "failed"}
    /\ exitCode' = IF pc = "done" THEN 0 ELSE 2
    /\ pc' = "exited"
    /\ UNCHANGED <<infile, outpath, fs, s3, entry, argv, keep_order, cols, best, total, pos, dirCreated,
                   header, items, iterCount, outfile, ret, err, run,
                   threshold, counts, keep_users, kept>>

NextFilter ==
    \/ FilterMain
    \/ CountOpen
    \/ CountRow
    \/ SelectUsers
    \/ FilterOpen
    \/ FilterRow
    \/ FilterReturn
    \/ FilterExit

SpecFilter == InitFilter /\ [][NextFilter]_vars

----------------------------------------------------------------------------
(* s3_upload_check: main, upload_file, object_exists *)

\* --profile and --region: "" when the option is not given
Profiles == {"", "dev"}
Regions == {"", "us-east-1", "eu-west-1"}

\* what the S3 client can answer: the ClientError codes, and an exception that
\* is not a ClientError
UploadErrorCodes == {"AccessDenied", "NoSuchBucket"}
HeadErrorCodes == {"404", "NotFound", "403"}

\* main entered: ok and exists are "unset" until assigned, rc is -1 until main
\* returns, raised names an exception that leaves main
S3Start(fileExists, profile, region) ==
    [pc |-> "main", fileExists |-> fileExists, profile |-> profile, region |-> region,
     uploadCalls |-> 0, headCalls |-> 0, code |-> "",
     ok |-> "unset", exists |-> "unset", rc |-> -1, raised |-> ""]

InitS3 ==
    /\ InitCommon
    /\ infile = [exists |-> FALSE, hasHeader |-> FALSE, fieldnames |-> <<>>, rows |-> <<>>]
    /\ outpath = PathInDir
    /\ fs = {}
    /\ entry = "main"
    /\ threshold = 0
    /\ s3 \in {S3Start(f, p, r) : f \in BOOLEAN, p \in Profiles, r \in Regions}

\* boto3.Session(profile_name=profile) raises ProfileNotFound for an unknown profile
SessionOutcomes(profile) == IF profile = "" THEN {"session"} ELSE {"session", "ProfileNotFound"}

\* line 78 and upload_file, lines 26-44
S3UploadFile ==
    /\ s3.pc = "main"
    /\ IF ~s3.fileExists
       THEN s3' = [s3 EXCEPT !.ok = "False", !.pc = "uploaded"]
       ELSE \E sess \in SessionOutcomes(s3.profile) :
               IF sess # "session"
               THEN s3' = [s3 EXCEPT !.raised = sess, !.pc = "raised"]
               ELSE \E answer \in {"done", "OtherError"} \cup UploadErrorCodes :
                       s3' = IF answer = "done"
                             THEN [s3 EXCEPT !.uploadCalls = @ + 1, !.ok = "True",
                                             !.pc = "uploaded"]
                             ELSE IF answer \in UploadErrorCodes
                             THEN [s3 EXCEPT !.uploadCalls = @ + 1, !.ok = "False",
                                             !.code = answer, !.pc = "uploaded"]
                             ELSE [s3 EXCEPT !.uploadCalls = @ + 1, !.raised = answer,
                                             !.pc = "raised"]
    /\ UNCHANGED csvVars

\* main going on to the existence check whatever upload_file returned
S3AfterUploadNoReturn ==
    /\ s3.pc = "uploaded"
    /\ s3' = [s3 EXCEPT !.pc = "checking"]
    /\ UNCHANGED csvVars

\* main, lines 79-81: if not ok: return 2
S3AfterUpload ==
    /\ s3.pc = "uploaded"
    /\ s3' = IF s3.ok # "True"
             THEN [s3 EXCEPT !.rc = 2, !.pc = "exited"]
             ELSE [s3 EXCEPT !.pc = "checking"]
    /\ UNCHANGED csvVars

\* line 83 and object_exists, lines 47-62
S3ObjectExists ==
    /\ s3.pc = "checking"
    /\ \E sess \in SessionOutcomes(s3.profile) :
          IF sess # "session"
          THEN s3' = [s3 EXCEPT !.raised = sess, !.pc = "raised"]
          ELSE \E answer \in {"found", "OtherError"} \cup HeadErrorCodes :
                  s3' = IF answer = "found"
                        THEN [s3 EXCEPT !.headCalls = @ + 1, !.exists = "True",
                                        !.pc = "checked"]
                        ELSE IF answer \in HeadErrorCodes
                        THEN [s3 EXCEPT !.headCalls = @ + 1, !.exists = "False",
                                        !.code = answer, !.pc = "checked"]
                        ELSE [s3 EXCEPT !.headCalls = @ + 1, !.raised = answer,
                                        !.pc = "raised"]
    /\ UNCHANGED csvVars

\* main, lines 84-89: return 0 if exists else 3
S3Return ==
    /\ s3.pc = "checked"
    /\ s3' = [s3 EXCEPT !.rc = IF s3.exists = "True" THEN 0 ELSE 3, !.pc = "exited"]
    /\ UNCHANGED csvVars

NextS3 ==
    \/ S3UploadFile
    \/ S3AfterUpload
    \/ S3ObjectExists
    \/ S3Return

SpecS3 == InitS3 /\ [][NextS3]_vars

----------------------------------------------------------------------------
(* Vocabulary of the properties *)

\* the recency the running call gives a row, and the row's composite key
Rec(row) == to_int_safe(Get(row, cols.ts))
RowKey(row) == KeyOf(row, cols)

\* positions of the rows scanned so far that carry key k
Occ(k) == {i \in 1..pos : RowKey(infile.rows[i]) = k}
MaxRec(k) == CHOOSE m \in {Rec(infile.rows[i]) : i \in Occ(k)} :
                 \A i \in Occ(k) : Rec(infile.rows[i]) <= m
\* the last scanned position of key k whose recency is the key's maximum
LastMax(k) == CHOOSE i \in Occ(k) :
                 /\ Rec(infile.rows[i]) = MaxRec(k)
                 /\ \A j \in Occ(k) : Rec(infile.rows[j]) = MaxRec(k) => j <= i

ScanComplete == pc \in {"open", "write", "done", "exited"} /\ err = ""

KeysUnique(rows) == \A i, j \in 1..Len(rows) :
                       i # j => RowKey(rows[i]) # RowKey(rows[j])

\* C1: at every point of the scan, and so when its last row is done, the table holds exactly one
\* entry per key seen; its recency is the maximum recency of the rows of that key
\* and its record is the last row, in input order, that has that maximum.
C1_NewestWinsTiesToLater ==
    (pc = "scan") =>
        /\ {best[i].key : i \in 1..Len(best)} = {RowKey(infile.rows[i]) : i \in 1..pos}
        /\ \A i, j \in 1..Len(best) : i # j => best[i].key # best[j].key
        /\ \A i \in 1..Len(best) :
              /\ best[i].ts = MaxRec(best[i].key)
              /\ best[i].row = infile.rows[LastMax(best[i].key)]

\* three rows of one key: the first is older, the last two tie and differ
C1_Witness ==
    /\ pc = "scan" /\ pos = 3 /\ Len(infile.rows) = 3 /\ Len(best) = 1
    /\ Rec(infile.rows[1]) < Rec(infile.rows[2])
    /\ Rec(infile.rows[2]) = Rec(infile.rows[3])
    /\ infile.rows[2] # infile.rows[3]
    /\ best[1].row = infile.rows[3]

\* C2: through main, each output row is the newest row of its (user, item) pair
\* according to the column named by --timestamp-col.
C2_MainKeepsNewestByTimestampCol ==
    (entry = "main" /\ run = 1 /\ pc = "exited" /\ exitCode = 0) =>
        \A o \in 1..Len(outfile.rows) : \A i \in 1..Len(infile.rows) :
            (/\ infile.rows[i][argv.user_col] = outfile.rows[o][argv.user_col]
             /\ infile.rows[i][argv.item_col] = outfile.rows[o][argv.item_col])
            => to_int_safe(infile.rows[i][argv.timestamp_col])
                  <= to_int_safe(outfile.rows[o][argv.timestamp_col])

\* C3: the returned counts satisfy kept <= total, total is the number of data rows,
\* and kept = total exactly when no two rows share a composite key.
C3_KeptAtMostTotal ==
    ret.set =>
        /\ ret.total = Len(infile.rows)
        /\ ret.kept <= ret.total
        /\ (ret.kept = ret.total) <=> KeysUnique(infile.rows)

C3_Witness ==
    /\ ret.set /\ run = 1
    /\ ret.total = 3 /\ ret.kept = 2

\* the table the scan builds from a row sequence
RECURSIVE ScanAll(_, _)
ScanAll(rows, c) ==
    IF rows = <<>> THEN <<>>
    ELSE Observe(ScanAll(SubSeq(rows, 1, Len(rows) - 1), c), rows[Len(rows)], c)

Permuted(rows, p) == [i \in 1..Len(rows) |-> rows[p[i]]]
Retained(table) == {<<table[i].key, table[i].row>> : i \in 1..Len(table)}
RetainedRecency(table) == {<<table[i].key, table[i].ts>> : i \in 1..Len(table)}

\* the state in which the scan loop has just ended, the table final
ScanEnded == pc = "open" /\ err = ""

\* key k has two different rows that both carry the key's maximum recency
TiedAtMax(k) == \E i, j \in Occ(k) :
                   /\ infile.rows[i] # infile.rows[j]
                   /\ Rec(infile.rows[i]) = MaxRec(k)
                   /\ Rec(infile.rows[j]) = MaxRec(k)

TiedKeys == {k \in {RowKey(infile.rows[i]) : i \in 1..pos} : TiedAtMax(k)}

\* table t holds the keys of best with the recencies of best, and the records of
\* best for the keys outside `tied`
SameUnlessTied(t, tied) ==
    /\ RetainedRecency(t) = RetainedRecency(best)
    /\ {kr \in Retained(t) : kr[1] \notin tied} = {kr \in Retained(best) : kr[1] \notin tied}

\* C4 as claimed: every permutation of the input rows leaves the same record
\* retained for every key (dedup_ratings called with its own timestamp column).
C4_AnyOrderSameRecord ==
    (ScanEnded /\ run = 1 /\ entry = "direct") =>
        \A p \in Permutations(1..Len(infile.rows)) :
            Retained(ScanAll(Permuted(infile.rows, p), cols)) = Retained(best)

\* C4 amended: every permutation of the input rows leaves the same recency
\* retained for every key, and the same record for every key that has no two
\* different rows tied at its maximum recency.
C4_AnyOrderSameRecordUnlessTied ==
    (ScanEnded /\ run = 1) =>
        \A tied \in {TiedKeys} :
            \A p \in Permutations(1..Len(infile.rows)) :
                \A t \in {ScanAll(Permuted(infile.rows, p), cols)} :
                    SameUnlessTied(t, tied)

\* the newest row of a key comes first, an older one after it
C4_Witness ==
    /\ ScanEnded /\ run = 1 /\ pos = 3 /\ Len(best) = 2
    /\ RowKey(infile.rows[1]) = RowKey(infile.rows[3])
    /\ Rec(infile.rows[1]) > Rec(infile.rows[3])
    /\ ~TiedAtMax(RowKey(infile.rows[1]))
    /\ best[1].row = infile.rows[1]

Unparsable(value) == ~IntParses(value) /\ ~FloatParses(value)

\* C5 as claimed: an unparsable timestamp has the minimum recency, below or equal
\* to that of any parsable one, so a row carrying it is not retained when a row of
\* the same key with a parsable timestamp comes later in the input
\* (dedup_ratings called with its own timestamp column).
C5_UnparsableIsMinimum ==
    (ScanComplete /\ entry = "direct") =>
        \A e \in 1..Len(best) :
            Unparsable(Get(best[e].row, cols.ts)) =>
                \A i \in Occ(best[e].key) :
                    ~Unparsable(Get(infile.rows[i], cols.ts)) => i < LastMax(best[e].key)

\* C5 amended: an unparsable timestamp does not stop the scan and has recency 0;
\* the row carrying it is retained only if no row of its key has a recency
\* above 0, or a recency of 0 later in the input.
C5_UnparsableIsZero ==
    /\ (pc = "scan" /\ err = "") =>
          \A i \in 1..pos : Unparsable(Get(infile.rows[i], cols.ts)) => Rec(infile.rows[i]) = 0
    /\ ScanComplete =>
          /\ pos = Len(infile.rows)
          /\ \A e \in 1..Len(best) :
                Unparsable(Get(best[e].row, cols.ts)) =>
                    /\ best[e].ts = 0
                    /\ \A i \in Occ(best[e].key) : Rec(infile.rows[i]) <= 0
                    /\ \E i \in Occ(best[e].key) :
                          /\ infile.rows[i] = best[e].row
                          /\ \A j \in Occ(best[e].key) : Rec(infile.rows[j]) = 0 => j <= i

\* an unparsable timestamp wins over an earlier negative one and is scanned
\* without failure while a third row follows
C5_Witness ==
    /\ ScanComplete /\ run = 1 /\ entry = "direct" /\ pos = 3
    /\ RowKey(infile.rows[1]) = RowKey(infile.rows[2])
    /\ Rec(infile.rows[1]) < 0
    /\ Unparsable(Get(infile.rows[2], cols.ts))
    /\ best[1].row = infile.rows[2]

\* C6: the run on the first run's output writes a file identical to its input,
\* header and rows in the same order, and returns kept = total.
C6_SecondRunIsIdentity ==
    (run = 2 /\ ret.set) =>
        /\ outfile.fieldnames = infile.fieldnames
        /\ outfile.rows = infile.rows
        /\ ret.kept = ret.total
        /\ ret.total = Len(infile.rows)

\* a second run, sorted, over two rows of equal recency
C6_Witness ==
    /\ run = 2 /\ ret.set /\ keep_order
    /\ Len(infile.rows) = 2
    /\ Rec(infile.rows[1]) = Rec(infile.rows[2])
    /\ Len(outfile.rows) = 2

BadInput == \/ ~infile.exists
            \/ ~infile.hasHeader
            \/ ~({"userId", "movieId", "timestamp", "rating"} \subseteq Range(infile.fieldnames))

NoOutputEffect == /\ ~dirCreated
                  /\ ~outfile.opened
                  /\ ~outfile.headerWritten
                  /\ outfile.rows = <<>>

\* C7: with a missing input file, no header, or any of the four required columns
\* absent, the call fails before a row is scanned, and in a failed call no
\* directory was created, the output was not opened and no row was written.
C7_FailsBeforeAnyEffect ==
    (BadInput /\ pc \notin {"start", "preflight"}) =>
          /\ pc \in {"failed", "exited"}
          /\ err \in {"FileNotFoundError", "ValueError"}
          /\ ~infile.exists <=> err = "FileNotFoundError"
          /\ entry = "main" /\ pc = "exited" => exitCode = 2
          /\ pos = 0 /\ total = 0 /\ best = <<>> /\ NoOutputEffect /\ ~ret.set

\* a file with one data row and no timestamp column
C7_Witness ==
    /\ err = "ValueError"
    /\ infile.hasHeader
    /\ "timestamp" \notin Range(infile.fieldnames)
    /\ Len(infile.rows) = 1

Emitting == pc \in {"open", "write", "done", "exited"}

\* C9: nothing is written, not even the header, before the last input row has
\* been scanned; the table is listed for output once, and from then on it does
\* not change.
C9_ScanBeforeEmit ==
    /\ [](/\ (outfile.opened \/ outfile.headerWritten \/ outfile.rows # <<>>) =>
                 pos = Len(infile.rows) /\ best = ScanAll(infile.rows, cols)
          /\ iterCount <= 1
          /\ (Emitting /\ err = "") => iterCount = 1
          /\ iterCount = 1 => pos = Len(infile.rows))
    /\ [][(Emitting /\ run' = run) => best' = best /\ iterCount' = iterCount]_vars

C9_Witness ==
    /\ pc = "done" /\ run = 1
    /\ Len(infile.rows) = 3
    /\ Len(outfile.rows) = 2
    /\ iterCount = 1

\* how many rows of the whole input carry the user of row r
UserRows(r) == Cardinality({i \in 1..Len(infile.rows) :
                               infile.rows[i][argv.user_col] = r[argv.user_col]})
Active(r) == UserRows(r) >= threshold

\* C8: filter_users writes exactly the input rows whose user has at least
\* threshold rows in the whole input, in input order and once each; the count it
\* returns is the number of rows written and at most the number of rows read.
C8_FilterKeepsActiveUsers ==
    /\ (pc = "filter" /\ threshold >= 1) =>
          /\ outfile.rows = SelectSeq(SubSeq(infile.rows, 1, pos), Active)
          /\ kept = Len(outfile.rows)
          /\ total = pos
    /\ (ret.set /\ threshold >= 1) =>
          /\ outfile.rows = SelectSeq(infile.rows, Active)
          /\ ret.kept = Len(outfile.rows)
          /\ ret.total = Len(infile.rows)
          /\ ret.kept <= ret.total

\* a user with two rows is kept around a dropped user with one row
C8_Witness ==
    /\ ret.set /\ threshold = 2 /\ Len(infile.rows) = 3
    /\ infile.rows[1][argv.user_col] = infile.rows[3][argv.user_col]
    /\ infile.rows[1] # infile.rows[3]
    /\ outfile.rows = <<infile.rows[1], infile.rows[3]>>

FirstOcc(k) == CHOOSE i \in Occ(k) : \A j \in Occ(k) : i <= j

GoodInput == ~BadInput

\* C11: after a successful scan the directory step does not fail, whatever the
\* output path: a call on a well-formed input raises nothing, its parent
\* directory is ensured and the output file is written.
C11_DirectoryStepNeverFails ==
    (GoodInput /\ run = 1) =>
        /\ err = ""
        /\ pc # "failed"
        /\ (entry = "main" /\ pc = "exited") => exitCode = 0
        /\ pc \in {"done", "exited"} =>
              /\ dirCreated
              /\ Dirname(outpath) \in fs
              /\ outfile.opened /\ outfile.headerWritten
              /\ Len(outfile.rows) = Len(best)

\* C12: the existence check is made only after upload_file returned True; main
\* returns 0 exactly when upload_file and then object_exists returned True, 2
\* with no existence check when upload_file returned False (with no upload call
\* when the local file is missing), and 3 when the upload succeeded and the
\* existence check did not confirm the object.
C12_CheckOnlyAfterUpload ==
    /\ s3.headCalls > 0 => s3.ok = "True"
    /\ s3.exists # "unset" => s3.ok = "True" /\ s3.headCalls = 1
    /\ (~s3.fileExists /\ s3.pc # "main") => s3.ok = "False" /\ s3.uploadCalls = 0
    /\ s3.pc = "exited" =>
          /\ s3.rc \in {0, 2, 3}
          /\ s3.rc = 0 <=> (s3.ok = "True" /\ s3.exists = "True")
          /\ s3.rc = 2 <=> s3.ok = "False"
          /\ s3.ok = "False" => s3.headCalls = 0 /\ s3.exists = "unset"
          /\ s3.rc = 3 <=> (s3.ok = "True" /\ s3.exists = "False")

\* the upload was made and succeeded, the check answered 404, main returned 3
C12_Witness ==
    /\ s3.pc = "exited" /\ s3.rc = 3
    /\ s3.uploadCalls = 1 /\ s3.headCalls = 1
    /\ s3.code = "404"

====
